---- MODULE Spec2Model ----
(***************************************************************************)
(* A model of the RAG question-answering service:                          *)
(*   - utils/chunker.py          chunk_text                                *)
(*   - vector_store/faiss_db.py  FAISSVectorStore (the store main.py uses) *)
(*   - vector_store/__init__.py  VectorStore (the persisting variant)      *)
(*   - main.py                   process_document_background,              *)
(*                               query_documents                           *)
(* Each component has its own specification; the variables of the other    *)
(* components stay at their initial values.                                *)
(***************************************************************************)
EXTENDS Integers, Sequences, FiniteSets, TLC

\* ------------------------------------------------------------------ bounds
MaxLen == 5          \* longest text given to chunk_text
MaxChunkSize == 4    \* largest chunk_size given to chunk_text
MaxOverlap == 4      \* largest overlap given to chunk_text
MaxIter == MaxLen + 2  \* loop iterations explored when the loop does not end by itself
MaxChunksPerDoc == 2 \* most chunks chunk_text yields for one document
MaxBatches == 2      \* calls of VectorStore.add_vectors
MaxBatchSize == 2    \* most vectors in one call of add_vectors

\* k of vector_store.search(question_embedding, k=3)
K == 3

\* ------------------------------------------------------------------ state
VARIABLES
    \* chunk_text (utils/chunker.py)
    text, chunk_size, overlap, start, ck_chunks, cpc,
    starts,      \* history: the start offset each returned chunk was cut at
    iters,       \* history: loop iterations so far
    \* FAISSVectorStore (vector_store/faiss_db.py), the global vector_store of main.py
    index,       \* self.index: the vectors, in insertion order
    chunks,      \* self.chunks
    metadata,    \* self.metadata
    \* process_document_background (main.py), one background task per document
    task,        \* where each document's task stands
    nchunks,     \* len(chunks) of each task's local chunk list
    \* query_documents (main.py)
    qpc, q_indices, qi, q_chunk, retrieved_chunks, sources, similarity_scores,
    q_ntotal,    \* history: index.ntotal when the running query searched
    \* VectorStore (vector_store/__init__.py)
    vs_index,    \* self.index
    vs_metadata, \* self.metadata
    file_index,  \* the file at self.index_file
    file_meta,   \* the file at self.metadata_file
    vpc,         \* where the process holding the VectorStore stands
    vs_calls,    \* calls of add_vectors so far
    vs_n,        \* the number of vectors of the running add_vectors call
    vs_pre,      \* history: <<index count, metadata count>> when add_vectors was called
    vs_committed, \* history: the last snapshot save_index wrote completely
    vs_attempted  \* history: the snapshot the latest save_index set out to write

ckvars == <<text, chunk_size, overlap, start, ck_chunks, cpc, starts, iters>>
storevars == <<index, chunks, metadata>>
taskvars == <<task, nchunks>>
qvars == <<qpc, q_indices, qi, q_chunk, retrieved_chunks, sources, similarity_scores,
           q_ntotal>>
vsvars == <<vs_index, vs_metadata, file_index, file_meta, vpc, vs_calls, vs_n,
            vs_pre, vs_committed, vs_attempted>>
mainvars == <<storevars, taskvars, qvars>>
vars == <<ckvars, storevars, taskvars, qvars, vsvars>>

\* ------------------------------------------------------------------ helpers
Min(a, b) == IF a < b THEN a ELSE b
Max(a, b) == IF a > b THEN a ELSE b

\* the characters texts are made of; " " and "\t" are whitespace for str.strip()
Alphabet == {"a", "b", " ", "\t"}
IsSpace(c) == c \in {" ", "\t"}
Texts == UNION {[1..n -> Alphabet] : n \in 0..MaxLen}

\* Python's s[a:b] for a sequence s and integers a, b (0-based, negative
\* indices count from the end, both ends clipped to the sequence)
SliceIndex(n, i) == IF i < 0 THEN Max(n + i, 0) ELSE Min(i, n)
PySlice(s, a, b) ==
    LET lo == SliceIndex(Len(s), a)
        hi == SliceIndex(Len(s), b)
    IN  IF lo < hi THEN SubSeq(s, lo + 1, hi) ELSE <<>>

\* Python's str.strip(): leading and trailing whitespace removed
RECURSIVE LStrip(_)
LStrip(s) == IF s # <<>> /\ IsSpace(Head(s)) THEN LStrip(Tail(s)) ELSE s
RECURSIVE RStrip(_)
RStrip(s) ==
    IF s # <<>> /\ IsSpace(s[Len(s)]) THEN RStrip(SubSeq(s, 1, Len(s) - 1)) ELSE s
Strip(s) == RStrip(LStrip(s))

\* ------------------------------------------------------------------ chunk_text
\* the window one character short (an off-by-one in the slice end)
EndShort(st, size) == st + size - 1
\* end = start + chunk_size
End(st, size) == st + size

\* start += (chunk_size - overlap)
NextStart(st, size, ov) == st + (size - ov)

ChunkInit ==
    /\ text \in Texts
    /\ chunk_size \in 1..MaxChunkSize
    /\ overlap \in 0..MaxOverlap
    /\ start = 0
    /\ ck_chunks = <<>>
    /\ cpc = "loop"
    /\ starts = <<>>
    /\ iters = 0

ChunkIdle ==
    /\ text = <<>>
    /\ chunk_size = 1
    /\ overlap = 0
    /\ start = 0
    /\ ck_chunks = <<>>
    /\ cpc = "done"
    /\ starts = <<>>
    /\ iters = 0

\* one iteration of `while start < text_length`
ChunkStep ==
    /\ cpc = "loop"
    /\ start < Len(text)
    /\ iters < MaxIter
    /\ LET chunk == PySlice(text, start, End(start, chunk_size))
       IN  IF Strip(chunk) # <<>>
           THEN /\ ck_chunks' = Append(ck_chunks, chunk)
                /\ starts' = Append(starts, start)
           ELSE UNCHANGED <<ck_chunks, starts>>
    /\ start' = NextStart(start, chunk_size, overlap)
    /\ iters' = iters + 1
    /\ UNCHANGED <<text, chunk_size, overlap, cpc>>
    /\ UNCHANGED <<mainvars, vsvars>>

\* the loop condition is false: return chunks
ChunkReturn ==
    /\ cpc = "loop"
    /\ ~(start < Len(text))
    /\ cpc' = "done"
    /\ UNCHANGED <<text, chunk_size, overlap, start, ck_chunks, starts, iters>>
    /\ UNCHANGED <<mainvars, vsvars>>

ChunkNext == ChunkStep \/ ChunkReturn

\* ------------------------------------------------------------------ FAISSVectorStore
\* the files uploaded: two documents, whose background tasks run concurrently
Docs == {"a.txt", "b.pdf"}

\* Python's s[i] for a list s: negative i counts from the end
PyIndexOk(s, i) == -Len(s) <= i /\ i < Len(s)
PyIndex(s, i) == IF i < 0 THEN s[Len(s) + i + 1] ELSE s[i + 1]

\* chunks = chunk_text(text): the chunks of document d, told apart by ordinal
DocChunks(d, n) == [j \in 1..n |-> <<d, j>>]
\* embeddings = embedder.embed_documents(chunks): one vector per chunk
DocEmbeddings(d, n) == [j \in 1..n |-> <<d, j>>]
\* one metadata record too few for the chunks
DocMetadataShort(d, n) == [j \in 1..(n - 1) |-> [source |-> d]]
\* metadata = [{"source": filename} for _ in chunks]
DocMetadata(d, n) == [j \in 1..n |-> [source |-> d]]

\* FAISSVectorStore.__init__, and the module-level state of main.py
StoreInit ==
    /\ index = <<>>
    /\ chunks = <<>>
    /\ metadata = <<>>
    /\ task = [d \in Docs |-> "none"]
    /\ nchunks = [d \in Docs |-> 0]
    /\ qpc = "idle"
    /\ q_indices = <<>>
    /\ qi = 0
    /\ q_chunk = <<>>
    /\ retrieved_chunks = <<>>
    /\ sources = <<>>
    /\ similarity_scores = <<>>
    /\ q_ntotal = 0

\* upload_document: the file is saved and the background task is added
UploadDocument(d) ==
    /\ task[d] = "none"
    /\ task' = [task EXCEPT ![d] = "queued"]
    /\ UNCHANGED <<ckvars, vsvars, storevars, nchunks, qvars>>

\* process_document_background up to the call of add_documents: extract the
\* text, chunk it, embed the chunks, build the metadata (all local)
Prepare(d) ==
    /\ task[d] = "queued"
    /\ \E n \in 1..MaxChunksPerDoc : nchunks' = [nchunks EXCEPT ![d] = n]
    /\ task' = [task EXCEPT ![d] = "prepared"]
    /\ UNCHANGED <<ckvars, vsvars, storevars, qvars>>

\* an exception in extraction, chunking or embedding (or from an empty chunk
\* list in index.add) is caught by the task's except clause
IngestFail(d) ==
    /\ task[d] = "queued"
    /\ task' = [task EXCEPT ![d] = "failed"]
    /\ UNCHANGED <<ckvars, vsvars, storevars, nchunks, qvars>>

\* add_documents: self.index.add(embeddings_np); the library call is taken as
\* one step, the threads interleave between the statements of add_documents
IndexAdd(d) ==
    /\ task[d] = "prepared"
    /\ index' = index \o DocEmbeddings(d, nchunks[d])
    /\ task' = [task EXCEPT ![d] = "index_added"]
    /\ UNCHANGED <<ckvars, vsvars, chunks, metadata, nchunks, qvars>>

\* add_documents: self.chunks.extend(chunks)
ChunksExtend(d) ==
    /\ task[d] = "index_added"
    /\ chunks' = chunks \o DocChunks(d, nchunks[d])
    /\ task' = [task EXCEPT ![d] = "chunks_extended"]
    /\ UNCHANGED <<ckvars, vsvars, index, metadata, nchunks, qvars>>

\* add_documents: self.metadata.extend(metadata); the task then only prints
MetadataExtend(d) ==
    /\ task[d] = "chunks_extended"
    /\ metadata' = metadata \o DocMetadata(d, nchunks[d])
    /\ task' = [task EXCEPT ![d] = "completed"]
    /\ UNCHANGED <<ckvars, vsvars, index, chunks, nchunks, qvars>>

\* FAISSVectorStore.search: index.search(query_np, k) returns k labels, the
\* min(k, ntotal) nearest positions (any order of distances is possible, the
\* query vector being an input) and -1 for every label it cannot fill
SearchResults(n) ==
    LET m == Min(K, n)
    IN  {r \in [1..K -> (0..(n - 1)) \cup {-1}] :
            /\ \A i \in 1..m : r[i] >= 0
            /\ \A i \in (m + 1)..K : r[i] = -1
            /\ \A i, j \in 1..m : i # j => r[i] # r[j]}

\* query_documents: the empty-store check, embed_query and vector_store.search;
\* chunks never shrinks, so a store found non-empty by the check is non-empty
\* when the search runs and the two are one step
QuerySearch ==
    /\ qpc \in {"idle", "returned", "failed"}
    /\ IF Len(chunks) = 0
       THEN /\ qpc' = "returned"
            /\ q_indices' = <<>>
            /\ q_ntotal' = 0
       ELSE /\ qpc' = "guard"
            /\ q_indices' \in SearchResults(Len(index))
            /\ q_ntotal' = Len(index)
    /\ qi' = 1
    /\ q_chunk' = <<>>
    /\ retrieved_chunks' = <<>>
    /\ sources' = <<>>
    /\ similarity_scores' = <<>>
    /\ UNCHANGED <<ckvars, vsvars, storevars, taskvars>>

\* for i, idx in enumerate(indices[0]): if idx < len(vector_store.chunks)
QueryGuard ==
    /\ qpc = "guard"
    /\ qi <= Len(q_indices)
    /\ IF q_indices[qi] < Len(chunks)
       THEN qpc' = "read_chunk" /\ qi' = qi
       ELSE qpc' = "guard" /\ qi' = qi + 1
    /\ UNCHANGED <<ckvars, vsvars, storevars, taskvars, q_indices, q_chunk,
                   retrieved_chunks, sources, similarity_scores, q_ntotal>>

\* chunk_text = vector_store.chunks[idx]
QueryReadChunk ==
    /\ qpc = "read_chunk"
    /\ IF PyIndexOk(chunks, q_indices[qi])
       THEN /\ q_chunk' = PyIndex(chunks, q_indices[qi])
            /\ qpc' = "read_meta"
       ELSE /\ q_chunk' = <<>>
            /\ qpc' = "failed"
    /\ UNCHANGED <<ckvars, vsvars, storevars, taskvars, q_indices, qi,
                   retrieved_chunks, sources, similarity_scores, q_ntotal>>

\* source_doc = vector_store.metadata[idx].get("source", "unknown"), the score
\* of distances[0][i], and the three appends; an IndexError ends the query in
\* the except clause (HTTP 500)
QueryReadMeta ==
    /\ qpc = "read_meta"
    /\ IF PyIndexOk(metadata, q_indices[qi])
       THEN /\ retrieved_chunks' = Append(retrieved_chunks, q_chunk)
            /\ sources' = Append(sources, PyIndex(metadata, q_indices[qi]).source)
            /\ similarity_scores' = Append(similarity_scores, qi - 1)
            /\ qi' = qi + 1
            /\ qpc' = "guard"
       ELSE /\ qpc' = "failed"
            /\ UNCHANGED <<retrieved_chunks, sources, similarity_scores, qi>>
    /\ UNCHANGED <<ckvars, vsvars, storevars, taskvars, q_indices, q_chunk, q_ntotal>>

\* the loop is over: build the context, generate the answer, return
QueryReturn ==
    /\ qpc = "guard"
    /\ qi > Len(q_indices)
    /\ qpc' = "returned"
    /\ UNCHANGED <<ckvars, vsvars, storevars, taskvars, q_indices, qi, q_chunk,
                   retrieved_chunks, sources, similarity_scores, q_ntotal>>

Ingest ==
    \E d \in Docs :
        \/ UploadDocument(d)
        \/ Prepare(d)
        \/ IngestFail(d)
        \/ IndexAdd(d)
        \/ ChunksExtend(d)
        \/ MetadataExtend(d)

Query == QuerySearch \/ QueryGuard \/ QueryReadChunk \/ QueryReadMeta \/ QueryReturn

\* ------------------------------------------------------------------ VectorStore
Absent == [st |-> "absent", data |-> <<>>]
\* a file that was opened for writing (truncated) and not written to the end
Partial == [st |-> "partial", data |-> <<>>]
Written(data) == [st |-> "ok", data |-> data]

Snapshot(ix, md) == [index |-> ix, metadata |-> md]
\* the vectors of the b-th call of add_vectors, and their metadata records
Batch(b, n) == [j \in 1..n |-> <<b, j>>]

\* VectorStore.__init__ on a first run: no index file, load_or_create_index
\* creates an empty index
VSInit ==
    /\ vs_index = <<>>
    /\ vs_metadata = <<>>
    /\ file_index = Absent
    /\ file_meta = Absent
    /\ vpc = "ready"
    /\ vs_calls = 0
    /\ vs_n = 0
    /\ vs_pre = <<0, 0>>
    /\ vs_committed = Snapshot(<<>>, <<>>)
    /\ vs_attempted = Snapshot(<<>>, <<>>)

\* add_vectors: self.index.add(vectors)
AddVectorsIndexAdd ==
    /\ vpc \in {"ready", "loaded", "raised"}
    /\ vs_calls < MaxBatches
    /\ vs_calls' = vs_calls + 1
    /\ \E n \in 1..MaxBatchSize :
          /\ vs_n' = n
          /\ vs_index' = vs_index \o Batch(vs_calls + 1, n)
    /\ vs_pre' = <<Len(vs_index), Len(vs_metadata)>>
    /\ vpc' = "index_added"
    /\ UNCHANGED <<vs_metadata, file_index, file_meta, vs_committed, vs_attempted>>
    /\ UNCHANGED <<ckvars, mainvars>>

\* add_vectors: self.index.add(vectors) raises (the vectors do not have the
\* dimension of the index) before anything is added
AddVectorsReject ==
    /\ vpc \in {"ready", "loaded", "raised"}
    /\ vs_calls < MaxBatches
    /\ vs_calls' = vs_calls + 1
    /\ vs_pre' = <<Len(vs_index), Len(vs_metadata)>>
    /\ vpc' = "raised"
    /\ UNCHANGED <<vs_index, vs_metadata, file_index, file_meta, vs_n, vs_committed,
                   vs_attempted>>
    /\ UNCHANGED <<ckvars, mainvars>>

\* add_vectors: self.metadata.extend(metadata)
AddVectorsExtend ==
    /\ vpc = "index_added"
    /\ vs_metadata' = vs_metadata \o Batch(vs_calls, vs_n)
    /\ vpc' = "extended"
    /\ UNCHANGED <<vs_index, file_index, file_meta, vs_calls, vs_n, vs_pre,
                   vs_committed, vs_attempted>>
    /\ UNCHANGED <<ckvars, mainvars>>

\* save_index: os.makedirs(os.path.dirname(self.index_file), exist_ok=True)
SaveMakedirs ==
    /\ vpc = "extended"
    /\ vpc' = "dir_made"
    /\ vs_attempted' = Snapshot(vs_index, vs_metadata)
    /\ UNCHANGED <<vs_index, vs_metadata, file_index, file_meta, vs_calls, vs_n,
                   vs_pre, vs_committed>>
    /\ UNCHANGED <<ckvars, mainvars>>

\* save_index: faiss.write_index opens the index file for writing
SaveOpenIndex ==
    /\ vpc = "dir_made"
    /\ file_index' = Partial
    /\ vpc' = "index_open"
    /\ UNCHANGED <<vs_index, vs_metadata, file_meta, vs_calls, vs_n, vs_pre,
                   vs_committed, vs_attempted>>
    /\ UNCHANGED <<ckvars, mainvars>>

\* save_index: faiss.write_index has written the whole index
SaveWriteIndex ==
    /\ vpc = "index_open"
    /\ file_index' = Written(vs_index)
    /\ vpc' = "index_written"
    /\ UNCHANGED <<vs_index, vs_metadata, file_meta, vs_calls, vs_n, vs_pre,
                   vs_committed, vs_attempted>>
    /\ UNCHANGED <<ckvars, mainvars>>

\* save_index: open(self.metadata_file, 'wb')
SaveOpenMeta ==
    /\ vpc = "index_written"
    /\ file_meta' = Partial
    /\ vpc' = "meta_open"
    /\ UNCHANGED <<vs_index, vs_metadata, file_index, vs_calls, vs_n, vs_pre,
                   vs_committed, vs_attempted>>
    /\ UNCHANGED <<ckvars, mainvars>>

\* save_index: pickle.dump(self.metadata, f); add_vectors returns
SaveDumpMeta ==
    /\ vpc = "meta_open"
    /\ file_meta' = Written(vs_metadata)
    /\ vs_committed' = Snapshot(vs_index, vs_metadata)
    /\ vpc' = "ready"
    /\ UNCHANGED <<vs_index, vs_metadata, file_index, vs_calls, vs_n, vs_pre,
                   vs_attempted>>
    /\ UNCHANGED <<ckvars, mainvars>>

\* save_index raises (makedirs, write_index, open or pickle.dump fails with an
\* OSError) and add_vectors passes the exception on to its caller
SaveFail ==
    /\ vpc \in {"extended", "dir_made", "index_open", "index_written", "meta_open"}
    /\ vpc' = "raised"
    /\ UNCHANGED <<vs_index, vs_metadata, file_index, file_meta, vs_calls, vs_n,
                   vs_pre, vs_committed, vs_attempted>>
    /\ UNCHANGED <<ckvars, mainvars>>

\* the process dies: the memory is lost, the files stay as they are
Crash ==
    /\ vpc \notin {"down", "load_failed"}
    /\ vpc' = "down"
    /\ vs_index' = <<>>
    /\ vs_metadata' = <<>>
    /\ UNCHANGED <<file_index, file_meta, vs_calls, vs_n, vs_pre, vs_committed,
                   vs_attempted>>
    /\ UNCHANGED <<ckvars, mainvars>>

\* the process starts again: VectorStore.__init__ calls load_or_create_index;
\* read_index and pickle.load raise on a file that was not written to the end,
\* open raises when the metadata file does not exist
LoadOrCreateIndex ==
    /\ vpc = "down"
    /\ IF file_index.st = "absent"
       THEN /\ vs_index' = <<>>
            /\ vs_metadata' = <<>>
            /\ vpc' = "loaded"
       ELSE IF file_index.st = "ok" /\ file_meta.st = "ok"
       THEN /\ vs_index' = file_index.data
            /\ vs_metadata' = file_meta.data
            /\ vpc' = "loaded"
       ELSE /\ vs_index' = IF file_index.st = "ok" THEN file_index.data ELSE <<>>
            /\ vs_metadata' = <<>>
            /\ vpc' = "load_failed"
    /\ UNCHANGED <<file_index, file_meta, vs_calls, vs_n, vs_pre, vs_committed,
                   vs_attempted>>
    /\ UNCHANGED <<ckvars, mainvars>>

VSInsert ==
    \/ AddVectorsIndexAdd
    \/ AddVectorsReject
    \/ AddVectorsExtend
    \/ SaveMakedirs
    \/ SaveOpenIndex
    \/ SaveWriteIndex
    \/ SaveOpenMeta
    \/ SaveDumpMeta
    \/ SaveFail

VSNext == VSInsert \/ Crash \/ LoadOrCreateIndex
Init == ChunkIdle /\ StoreInit /\ VSInit
SpecVS == Init /\ [][VSNext]_vars

Next == Ingest \/ Query
Spec == Init /\ [][Next]_vars

\* the process running main.py is restarted: the module-level code runs again,
\* vector_store = FAISSVectorStore(dimension=384) is a new, empty store, and
\* the background tasks and the query that were running are gone
ProcessRestart ==
    /\ index' = <<>>
    /\ chunks' = <<>>
    /\ metadata' = <<>>
    /\ task' = [d \in Docs |->
                  IF task[d] \in {"none", "completed", "failed"} THEN task[d] ELSE "lost"]
    /\ qpc' = "idle"
    /\ q_indices' = <<>>
    /\ qi' = 0
    /\ q_chunk' = <<>>
    /\ retrieved_chunks' = <<>>
    /\ sources' = <<>>
    /\ similarity_scores' = <<>>
    /\ q_ntotal' = 0
    /\ UNCHANGED <<ckvars, vsvars, nchunks>>

SpecRestart == Init /\ [][Next \/ ProcessRestart]_vars

\* either program on its own: the service of main.py with its FAISSVectorStore,
\* or a VectorStore taking add_vectors calls in a process that stays up
StoresNext ==
    \/ VSInit /\ \E d \in Docs : UploadDocument(d)
    \/ VSInit /\ \E d \in Docs : Prepare(d)
    \/ VSInit /\ \E d \in Docs : IngestFail(d)
    \/ VSInit /\ \E d \in Docs : IndexAdd(d)
    \/ VSInit /\ \E d \in Docs : ChunksExtend(d)
    \/ VSInit /\ \E d \in Docs : MetadataExtend(d)
    \/ VSInit /\ QuerySearch
    \/ VSInit /\ QueryGuard
    \/ VSInit /\ QueryReadChunk
    \/ VSInit /\ QueryReadMeta
    \/ VSInit /\ QueryReturn
    \/ StoreInit /\ AddVectorsIndexAdd
    \/ StoreInit /\ AddVectorsReject
    \/ StoreInit /\ AddVectorsExtend
    \/ StoreInit /\ SaveMakedirs
    \/ StoreInit /\ SaveOpenIndex
    \/ StoreInit /\ SaveWriteIndex
    \/ StoreInit /\ SaveOpenMeta
    \/ StoreInit /\ SaveDumpMeta
    \/ StoreInit /\ SaveFail
SpecStores == Init /\ [][StoresNext]_vars

InitChunk == ChunkInit /\ StoreInit /\ VSInit
SpecChunk == InitChunk /\ [][ChunkNext]_vars

\* ------------------------------------------------------------------ chunk_text: properties
Prefix(s, n) == SubSeq(s, 1, n)
Suffix(s, n) == SubSeq(s, Len(s) - n + 1, Len(s))

ValidChunking == chunk_size > overlap /\ overlap > 0
LeftToRight == \A i \in 1..(Len(starts) - 1) : starts[i] < starts[i + 1]
NoChunkTooLong == \A i \in 1..Len(ck_chunks) : Len(ck_chunks[i]) <= chunk_size
\* chunks i and i+1 were cut from two successive windows
AdjacentWindows(i) == starts[i + 1] = starts[i] + (chunk_size - overlap)
\* the last n characters of chunk i are the first n characters of chunk i+1
SharesExactly(i, n) ==
    /\ Len(ck_chunks[i]) >= n
    /\ Len(ck_chunks[i + 1]) >= n
    /\ Suffix(ck_chunks[i], n) = Prefix(ck_chunks[i + 1], n)

\* C7 (as claimed): chunk_text never goes round its loop without advancing the
\* start offset, whatever chunk_size and overlap are; with a start offset that
\* strictly grows the loop ends after at most len(text) iterations.
C7_ForwardProgress == [][ChunkStep => start' > start]_vars

\* C8 (as claimed): for chunk_size > overlap > 0 the returned chunks are in
\* left-to-right order, none is longer than chunk_size, and every two
\* consecutive returned chunks overlap by exactly `overlap` characters; only
\* the final chunk may be shorter (it then shares all it has).
C8_OverlapAsClaimed ==
    (cpc = "done" /\ ValidChunking) =>
        /\ LeftToRight
        /\ NoChunkTooLong
        /\ \A i \in 1..(Len(ck_chunks) - 1) :
              SharesExactly(i, IF i + 1 = Len(ck_chunks)
                               THEN Min(overlap, Len(ck_chunks[i + 1]))
                               ELSE overlap)

\* C8 (amended): for chunk_size > overlap > 0 the returned chunks are in
\* left-to-right order, none is longer than chunk_size, and every two
\* consecutive returned chunks that were cut from successive windows (no
\* whitespace-only window dropped between them) overlap by exactly
\* min(overlap, length of the later chunk) characters.
C8_OverlapOfAdjacentWindows ==
    (cpc = "done" /\ ValidChunking) =>
        /\ LeftToRight
        /\ NoChunkTooLong
        /\ \A i \in 1..(Len(ck_chunks) - 1) :
              AdjacentWindows(i) =>
                  SharesExactly(i, Min(overlap, Len(ck_chunks[i + 1])))

\* a finished chunking with a full overlap between two chunks of successive
\* windows, and a pair of returned chunks with a dropped window between them
C8_Witness ==
    /\ cpc = "done"
    /\ ValidChunking
    /\ \E i \in 1..(Len(ck_chunks) - 1) :
          AdjacentWindows(i) /\ Len(ck_chunks[i + 1]) >= overlap
    /\ \E i \in 1..(Len(ck_chunks) - 1) : ~AdjacentWindows(i)

\* ------------------------------------------------------------------ stores: properties
Counts == <<Len(index), Len(chunks), Len(metadata)>>
VSCounts == <<Len(vs_index), Len(vs_metadata)>>
\* no add_documents call is between its first and its last append
NoInsertionInFlight == \A d \in Docs : task[d] \notin {"index_added", "chunks_extended"}
\* no add_vectors call is between its two appends
VSNoInsertionInFlight == vpc # "index_added"
CountsAligned ==
    /\ NoInsertionInFlight =>
          (Len(index) = Len(chunks) /\ Len(chunks) = Len(metadata))
    /\ VSNoInsertionInFlight => Len(vs_index) = Len(vs_metadata)
\* every position holds the vector, the text and the source of one chunk
PositionsMatch ==
    /\ Len(index) = Len(chunks)
    /\ Len(chunks) = Len(metadata)
    /\ \A i \in 1..Len(index) :
          index[i] = chunks[i] /\ metadata[i].source = chunks[i][1]
AllTasksOver == \A d \in Docs : task[d] \in {"none", "failed", "completed"}

\* C1: starting from an empty store, whenever no insertion is under way the
\* index holds as many vectors as there are chunks and metadata records
\* (FAISSVectorStore), resp. metadata records (VectorStore); no step makes a
\* count smaller and only the appends of an insertion change one.
C1_PositionAlignment ==
    /\ CountsAligned
    /\ [][/\ CountsAligned'
          /\ \A i \in 1..3 : Counts'[i] >= Counts[i]
          /\ \A i \in 1..2 : VSCounts'[i] >= VSCounts[i]
          /\ Counts' # Counts =>
                \E d \in Docs : IndexAdd(d) \/ ChunksExtend(d) \/ MetadataExtend(d)
          /\ VSCounts' # VSCounts => (AddVectorsIndexAdd \/ AddVectorsExtend)]_vars

\* both documents are in the FAISSVectorStore, their appends having interleaved
C1_Witness ==
    /\ \A d \in Docs : task[d] = "completed"
    /\ Len(index) >= 2
    /\ Len(index) = Len(metadata)
    /\ index # chunks

\* two calls of add_vectors have completed on the VectorStore
C1_WitnessVS == vpc = "ready" /\ vs_calls = MaxBatches /\ Len(vs_index) = Len(vs_metadata)

\* C2 (as claimed): a running query never sees fewer chunks or metadata
\* records in the store than the vectors its search saw in the index.
C2_AtomicVisibility ==
    qpc \in {"guard", "read_chunk", "read_meta"} =>
        (q_ntotal <= Len(chunks) /\ q_ntotal <= Len(metadata))

\* C3 (as claimed): once the ingestions are over, every position holds a
\* vector, a chunk and a metadata record of the same chunk of the same document.
C3_NoInterleaving == AllTasksOver => PositionsMatch

\* C5 (as claimed): a query over a store that holds n >= 1 entries from the
\* search to the return gives back min(k, n) chunks, sources and scores, for
\* distinct stored positions among 0..n-1.
C5_ReturnsMinKN ==
    (qpc = "returned" /\ q_ntotal >= 1 /\ Counts = <<q_ntotal, q_ntotal, q_ntotal>>) =>
        /\ Len(retrieved_chunks) = Min(K, q_ntotal)
        /\ Len(sources) = Min(K, q_ntotal)
        /\ Len(similarity_scores) = Min(K, q_ntotal)
        /\ \A i, j \in 1..Len(retrieved_chunks) :
              i # j => retrieved_chunks[i] # retrieved_chunks[j]
        /\ \A i \in 1..Len(retrieved_chunks) :
              \E p \in 1..Min(q_ntotal, Len(chunks)) : chunks[p] = retrieved_chunks[i]

\* C10 (as claimed): the query reads chunks[idx] and metadata[idx] only for
\* 0 <= idx < the store count, and never fails with an out-of-range lookup.
C10_DefensiveLookup ==
    /\ qpc # "failed"
    /\ qpc \in {"read_chunk", "read_meta"} =>
          (0 <= q_indices[qi] /\ q_indices[qi] < Len(chunks))

\* C9 (as claimed): the entries of every completed ingestion are in the store,
\* also after the process was restarted.
C9_PersistAfterIngestion ==
    \A d \in Docs :
        task[d] = "completed" =>
            \A j \in 1..nchunks[d] :
                /\ \E i \in 1..Len(index) : index[i] = <<d, j>>
                /\ \E i \in 1..Len(chunks) : chunks[i] = <<d, j>>

\* C4 (as claimed): when an insertion fails, the counts are what they were
\* before it began.
C4_NoPartialAppend == vpc = "raised" => VSCounts = vs_pre

\* C6 (as claimed): whatever point of save_index the process died at, the next
\* load_or_create_index succeeds and yields the last completely saved
\* snapshot or the one that was being saved, with as many vectors as metadata.
C6_CrashAtomicSave ==
    /\ vpc # "load_failed"
    /\ vpc = "loaded" =>
          /\ Len(vs_index) = Len(vs_metadata)
          /\ Snapshot(vs_index, vs_metadata) \in {vs_committed, vs_attempted}

====
